---- MODULE Spec2Model ----
(***************************************************************************)
(* Model of src/mnist.py: load MNIST through tfds, convert both splits to  *)
(* dense arrays (dsTonp), normalise them to float32, write the four arrays *)
(* with ndarray.tofile, print the four shapes.                             *)
(*                                                                         *)
(* A numpy array is a record [dtype, shape, data]: data is the flat        *)
(* C-contiguous (row-major) buffer, as numpy keeps it.  A float32 element  *)
(* is held as its IEEE-754 bit pattern (a natural number below 2^31: no    *)
(* value of the program is negative), an integer element as the integer.   *)
(* A file is a record [exists, bytes], bytes a sequence of 0..255.         *)
(***************************************************************************)
EXTENDS Integers, Sequences, FiniteSets

\* ---------------------------------------------------------------- bounds
\* Largest number of pairs of the train split and of the test split.
MaxTrain == 2
MaxTest == 1
\* Height and width of a sample image (MNIST: 28 x 28, one channel).
ImgRows == 1
ImgCols == 2

\* ------------------------------------------------------------- constants
\* The divisor of lines 29 and 30.
Scale == 255
\* IEEE-754 binary32: bits of the stored fraction, and the exponent bias.
FracBits == 23
Bias == 127

\* ------------------------------------------------------- float32 algebra
RECURSIVE Pow2(_)
Pow2(n) == IF n = 0 THEN 1 ELSE 2 * Pow2(n - 1)

RECURSIVE Log2Floor(_)
Log2Floor(n) == IF n < 2 THEN 0 ELSE 1 + Log2Floor(n \div 2)

\* The biased exponent field and the 24-bit significand of a positive
\* normal float32.
ExpField(x) == x \div Pow2(FracBits)
Significand(x) == Pow2(FracBits) + (x % Pow2(FracBits))

\* astype(np.float32) of one integer element n >= 0 below 2^24: exact.
AsFloat32(n) ==
  IF n = 0 THEN 0
  ELSE LET e == Log2Floor(n)
       IN (e + Bias) * Pow2(FracBits)
            + (n * Pow2(FracBits - e) - Pow2(FracBits))

\* Restoring long division: n more quotient bits of r / d, r < 2d.
\* Returns <<quotient, doubled remainder>>.  The next remainder and
\* quotient are bound as elements of singleton sets, so that each is
\* computed once however the operator is evaluated.
RECURSIVE DivBits(_, _, _, _)
DivBits(r, d, n, q) ==
  IF n = 0 THEN <<q, r>>
  ELSE LET b == IF r >= d THEN 1 ELSE 0
       IN CHOOSE out \in {DivBits(r1, d, n - 1, q1) :
                            r1 \in {2 * (r - b * d)}, q1 \in {2 * q + b}} :
            TRUE

\* x / y in float32, round to nearest, ties to even, for x >= 0 and y > 0
\* normal with a normal quotient (every quotient the program forms).
Float32Div(x, y) ==
  IF x = 0 THEN 0
  ELSE LET mx == Significand(x)
           my == Significand(y)
           ge == mx >= my
           e0 == ExpField(x) - ExpField(y) + Bias - (IF ge THEN 0 ELSE 1)
           qr == DivBits(IF ge THEN mx ELSE 2 * mx, my, FracBits + 1, 0)
           q == qr[1]
           r == qr[2]
           rbit == r >= my
           sticky == (IF rbit THEN r - my ELSE r) # 0
           up == rbit /\ (sticky \/ q % 2 = 1)
           q1 == IF up THEN q + 1 ELSE q
           carry == q1 = Pow2(FracBits + 1)
           m == IF carry THEN Pow2(FracBits) ELSE q1
           e == IF carry THEN e0 + 1 ELSE e0
       IN e * Pow2(FracBits) + (m - Pow2(FracBits))

\* The four bytes of a float32 in memory (little-endian, the native order
\* of the platforms numpy wheels are built for).
Float32Bytes(x) ==
  << x % 256, (x \div 256) % 256, (x \div 65536) % 256, x \div 16777216 >>

\* ----------------------------------------------------------------- numpy
RECURSIVE Product(_)
Product(s) == IF s = <<>> THEN 1 ELSE Head(s) * Product(Tail(s))

RECURSIVE ConcatData(_)
ConcatData(list) ==
  IF list = <<>> THEN <<>> ELSE Head(list).data \o ConcatData(Tail(list))

\* np.array(list) of a list of equally shaped arrays; of the empty list it
\* is the float64 array of shape (0,).
NpArray(list) ==
  IF list = <<>>
  THEN [dtype |-> "float64", shape |-> <<0>>, data |-> <<>>]
  ELSE [dtype |-> list[1].dtype,
        shape |-> <<Len(list)>> \o list[1].shape,
        data |-> ConcatData(list)]

\* The float32 of every integer an element of the program's integer arrays
\* holds (a uint8 pixel, a digit label), and its float32 quotient by Scale:
\* both tabulated once from AsFloat32 and Float32Div.
Float32Of == [n \in 0..Scale |-> AsFloat32(n)]

QuotientOf ==
  [x \in {AsFloat32(n) : n \in 0..Scale} |-> Float32Div(x, AsFloat32(Scale))]

\* arr.astype(np.float32)
AsType32(arr) ==
  [dtype |-> "float32", shape |-> arr.shape,
   data |-> [k \in 1..Len(arr.data) |-> Float32Of[arr.data[k]]]]

\* arr / 255.0 for a float32 arr and the Python float 255.0: float32,
\* elementwise.
TrueDivide(arr) ==
  [dtype |-> "float32", shape |-> arr.shape,
   data |-> [k \in 1..Len(arr.data) |-> QuotientOf[arr.data[k]]]]

RECURSIVE BytesOf(_)
BytesOf(data) ==
  IF data = <<>> THEN <<>> ELSE Float32Bytes(Head(data)) \o BytesOf(Tail(data))

\* ----------------------------------------------------------- environment
FileNames ==
  {"train_images.mat", "train_labels.mat", "test_images.mat", "test_labels.mat"}

Absent == [exists |-> FALSE, bytes |-> <<>>]

\* A file left by something else, longer than some outputs and shorter than
\* others.
Stale == [exists |-> TRUE, bytes |-> <<222, 173, 190, 239, 7>>]

NoFiles == [f \in FileNames |-> Absent]
StaleFiles == [f \in FileNames |-> Stale]

\* image.numpy(): a uint8 array of shape (rows, cols, 1).
PixelRamp == <<0, 255, 1, 128, 254, 127>>

MakeImage(seed) ==
  [dtype |-> "uint8", shape |-> <<ImgRows, ImgCols, 1>>,
   data |-> [k \in 1..(ImgRows * ImgCols) |->
               PixelRamp[((seed + k - 1) % Len(PixelRamp)) + 1]]]

ConstImage(p) ==
  [dtype |-> "uint8", shape |-> <<ImgRows, ImgCols, 1>>,
   data |-> [k \in 1..(ImgRows * ImgCols) |-> p]]

\* label.numpy(): a 0-dimensional int64 array.
MakeLabel(l) == [dtype |-> "int64", shape |-> <<>>, data |-> <<l>>]

MakePair(img, l) == [image |-> img, label |-> MakeLabel(l)]

SamplePairs == {MakePair(MakeImage(s), l) : s \in {0, 3}, l \in {0, 7}}

SeqsUpTo(S, n) == UNION {[1..k -> S] : k \in 0..n}

\* ----------------------------------------------------------------- state
VARIABLES
  mnist,         \* what the dataset provider serves: [train, test]
  fs,            \* the working directory: FileNames -> file
  pc,            \* the line the script is about to run, "done" or "failed"
  train_ds, test_ds,
  frame,         \* the locals of the running dsTonp call
  train_images, train_labels, test_images, test_labels,
  stdout,        \* the lines printed, each <<text, shape>>
  log,           \* history: the steps this run has taken
  fs0,           \* history: the working directory when this run started
  rerun,         \* whether this is the second run
  last           \* history: the files and output of the first run

vars == <<mnist, fs, pc, train_ds, test_ds, frame, train_images, train_labels,
          test_images, test_labels, stdout, log, fs0, rerun, last>>

\* A name not bound yet.
Unbound == [dtype |-> "unbound", shape |-> <<>>, data |-> <<>>]
NoFrame ==
  [ds |-> <<>>, images |-> <<>>, labels |-> <<>>, pos |-> 0, ret |-> ""]
NoLast == [valid |-> FALSE, fs |-> NoFiles, stdout |-> <<>>]

Event(op, arg, ok) == [op |-> op, arg |-> arg, ok |-> ok]

\* The interpreter starts the script: nothing bound, nothing printed.
Fresh ==
  /\ pc = "L24"
  /\ train_ds = <<>> /\ test_ds = <<>>
  /\ frame = NoFrame
  /\ train_images = Unbound /\ train_labels = Unbound
  /\ test_images = Unbound /\ test_labels = Unbound
  /\ stdout = <<>>
  /\ log = <<>>

Init ==
  /\ mnist \in [train : SeqsUpTo(SamplePairs, MaxTrain),
                test : SeqsUpTo(SamplePairs, MaxTest)]
  /\ fs \in {NoFiles, StaleFiles}
  /\ fs0 = fs
  /\ rerun = FALSE
  /\ last = NoLast
  /\ Fresh

\* Every pixel value 0..255 and every digit class 0..9: one train pair and
\* one test pair per initial state.
InitRange ==
  /\ \E p \in 0..255 :
       mnist = [train |-> <<MakePair(ConstImage(p), p % 10)>>,
                test |-> <<MakePair(ConstImage(255 - p), (p + 5) % 10)>>]
  /\ fs = StaleFiles
  /\ fs0 = fs
  /\ rerun = FALSE
  /\ last = NoLast
  /\ Fresh

\* ------------------------------------------------------------ operations
Logged(op, arg, ok) == log' = Append(log, Event(op, arg, ok))

\* Line 24, tfds.load returns the two splits.
Line24_Load ==
  /\ pc = "L24"
  /\ train_ds' = mnist.train
  /\ test_ds' = mnist.test
  /\ pc' = "L26"
  /\ Logged("load", "mnist", TRUE)
  /\ UNCHANGED <<mnist, fs, frame, train_images, train_labels, test_images,
                 test_labels, stdout, fs0, rerun, last>>

\* Faulty Line24_LoadRaises: the exception is caught and the script goes
\* on with empty splits.
Line24_LoadRaises_Caught ==
  /\ pc = "L24"
  /\ pc' = "L26"
  /\ Logged("load", "mnist", FALSE)
  /\ UNCHANGED <<mnist, fs, train_ds, test_ds, frame, train_images,
                 train_labels, test_images, test_labels, stdout, fs0, rerun,
                 last>>

\* Line 24, tfds.load raises (the dataset cannot be retrieved): nothing
\* catches the exception and the interpreter exits.
Line24_LoadRaises ==
  /\ pc = "L24"
  /\ pc' = "failed"
  /\ Logged("load", "mnist", FALSE)
  /\ UNCHANGED <<mnist, fs, train_ds, test_ds, frame, train_images,
                 train_labels, test_images, test_labels, stdout, fs0, rerun,
                 last>>

\* Lines 13-15: dsTonp is entered with two empty lists.
DsTonpCall(ds, ret) ==
  /\ frame' = [ds |-> ds, images |-> <<>>, labels |-> <<>>, pos |-> 0,
               ret |-> ret]
  /\ pc' = "L17"
  /\ UNCHANGED <<mnist, fs, train_ds, test_ds, train_images, train_labels,
                 test_images, test_labels, stdout, log, fs0, rerun, last>>

Line26_Call == pc = "L26" /\ DsTonpCall(train_ds, "L26")

\* Faulty Line27_Call: the train split is converted a second time.
Line27_Call_Train == pc = "L27" /\ DsTonpCall(train_ds, "L27")

Line27_Call == pc = "L27" /\ DsTonpCall(test_ds, "L27")

\* Faulty DsTonp_Iter: the image is inserted at the front of the list.
DsTonp_Iter_Prepend ==
  /\ pc = "L17"
  /\ frame.pos < Len(frame.ds)
  /\ LET pair == frame.ds[frame.pos + 1]
     IN frame' = [frame EXCEPT !.images = <<pair.image>> \o @,
                               !.labels = Append(@, pair.label),
                               !.pos = @ + 1]
  /\ UNCHANGED <<mnist, fs, pc, train_ds, test_ds, train_images, train_labels,
                 test_images, test_labels, stdout, log, fs0, rerun, last>>

\* Lines 17-19: one turn of the loop takes the next pair of the iterator
\* and appends its image and its label.
DsTonp_Iter ==
  /\ pc = "L17"
  /\ frame.pos < Len(frame.ds)
  /\ LET pair == frame.ds[frame.pos + 1]
     IN frame' = [frame EXCEPT !.images = Append(@, pair.image),
                               !.labels = Append(@, pair.label),
                               !.pos = @ + 1]
  /\ UNCHANGED <<mnist, fs, pc, train_ds, test_ds, train_images, train_labels,
                 test_images, test_labels, stdout, log, fs0, rerun, last>>

\* Line 21 returning to line 26.
Line26_Return ==
  /\ pc = "L17"
  /\ frame.pos = Len(frame.ds)
  /\ frame.ret = "L26"
  /\ train_images' = NpArray(frame.images)
  /\ train_labels' = NpArray(frame.labels)
  /\ frame' = NoFrame
  /\ pc' = "L27"
  /\ Logged("convert", "train", TRUE)
  /\ UNCHANGED <<mnist, fs, train_ds, test_ds, test_images, test_labels,
                 stdout, fs0, rerun, last>>

\* Line 21 returning to line 27.
Line27_Return ==
  /\ pc = "L17"
  /\ frame.pos = Len(frame.ds)
  /\ frame.ret = "L27"
  /\ test_images' = NpArray(frame.images)
  /\ test_labels' = NpArray(frame.labels)
  /\ frame' = NoFrame
  /\ pc' = "L29"
  /\ Logged("convert", "test", TRUE)
  /\ UNCHANGED <<mnist, fs, train_ds, test_ds, train_images, train_labels,
                 stdout, fs0, rerun, last>>

\* Faulty NormalizeImages: the divisor is 256.
NormalizeImages_By256(arr) ==
  [dtype |-> "float32", shape |-> arr.shape,
   data |-> [k \in 1..Len(arr.data) |->
               Float32Div(AsFloat32(arr.data[k]), AsFloat32(Scale + 1))]]

\* Faulty NormalizeLabels: the labels are rescaled like the images.
NormalizeLabels_Scaled(arr) == TrueDivide(AsType32(arr))

\* The right-hand sides of lines 29-30 and of lines 32-33.
NormalizeImages(arr) == TrueDivide(AsType32(arr))

NormalizeLabels(arr) == AsType32(arr)

Line29 ==
  /\ pc = "L29"
  /\ train_images' = NormalizeImages(train_images)
  /\ pc' = "L30"
  /\ Logged("normalize", "train_images", TRUE)
  /\ UNCHANGED <<mnist, fs, train_ds, test_ds, frame, train_labels,
                 test_images, test_labels, stdout, fs0, rerun, last>>

Line30 ==
  /\ pc = "L30"
  /\ test_images' = NormalizeImages(test_images)
  /\ pc' = "L32"
  /\ Logged("normalize", "test_images", TRUE)
  /\ UNCHANGED <<mnist, fs, train_ds, test_ds, frame, train_images,
                 train_labels, test_labels, stdout, fs0, rerun, last>>

Line32 ==
  /\ pc = "L32"
  /\ train_labels' = NormalizeLabels(train_labels)
  /\ pc' = "L33"
  /\ Logged("normalize", "train_labels", TRUE)
  /\ UNCHANGED <<mnist, fs, train_ds, test_ds, frame, train_images,
                 test_images, test_labels, stdout, fs0, rerun, last>>

Line33 ==
  /\ pc = "L33"
  /\ test_labels' = NormalizeLabels(test_labels)
  /\ pc' = "L35"
  /\ Logged("normalize", "test_labels", TRUE)
  /\ UNCHANGED <<mnist, fs, train_ds, test_ds, frame, train_images,
                 train_labels, test_images, stdout, fs0, rerun, last>>

\* Faulty ToFile: a file that exists is not overwritten.
ToFile_KeepExisting(old, arr) ==
  IF old.exists THEN old ELSE [exists |-> TRUE, bytes |-> BytesOf(arr.data)]

\* Faulty ToFile: the file is opened for appending.
ToFile_Append(old, arr) ==
  [exists |-> TRUE, bytes |-> old.bytes \o BytesOf(arr.data)]

\* The file arr.tofile(name) leaves when it succeeds: opened "wb", so an
\* existing file is truncated, then the buffer is written as it lies in
\* memory.
ToFile(old, arr) == [exists |-> TRUE, bytes |-> BytesOf(arr.data)]

\* The files a failing tofile may leave: the open failed and the file is as
\* it was, or the open truncated it and the write stopped after any number
\* of bytes.
FailedToFile(old, arr) ==
  LET bytes == BytesOf(arr.data)
  IN {old} \cup {[exists |-> TRUE, bytes |-> SubSeq(bytes, 1, k)] :
                   k \in 0..Len(bytes)}

Tofile(name, arr, next) ==
  /\ fs' = [fs EXCEPT ![name] = ToFile(@, arr)]
  /\ pc' = next
  /\ Logged("write", name, TRUE)
  /\ UNCHANGED <<mnist, train_ds, test_ds, frame, train_images, train_labels,
                 test_images, test_labels, stdout, fs0, rerun, last>>

Line35 == pc = "L35" /\ Tofile("train_images.mat", train_images, "L36")

\* Faulty Line36: the labels go to the file line 35 has just written.
Line36_WrongFile ==
  pc = "L36" /\ Tofile("train_images.mat", train_labels, "L37")

Line36 == pc = "L36" /\ Tofile("train_labels.mat", train_labels, "L37")

Line37 == pc = "L37" /\ Tofile("test_images.mat", test_images, "L38")

Line38 == pc = "L38" /\ Tofile("test_labels.mat", test_labels, "L40")

\* The file and the array of each tofile line.
WriteLines == {"L35", "L36", "L37", "L38"}

FileAt(line) ==
  CASE line = "L35" -> "train_images.mat"
    [] line = "L36" -> "train_labels.mat"
    [] line = "L37" -> "test_images.mat"
    [] line = "L38" -> "test_labels.mat"

ArrayAt(line) ==
  CASE line = "L35" -> train_images
    [] line = "L36" -> train_labels
    [] line = "L37" -> test_images
    [] line = "L38" -> test_labels

\* The line after a tofile line.
AfterWrite(line) ==
  CASE line = "L35" -> "L36"
    [] line = "L36" -> "L37"
    [] line = "L37" -> "L38"
    [] line = "L38" -> "L40"

\* Faulty TofileRaises: the exception is caught and the script goes on
\* with the next line.
TofileRaises_Caught ==
  /\ pc \in WriteLines
  /\ \E left \in FailedToFile(fs[FileAt(pc)], ArrayAt(pc)) :
       fs' = [fs EXCEPT ![FileAt(pc)] = left]
  /\ pc' = AfterWrite(pc)
  /\ Logged("write", FileAt(pc), FALSE)
  /\ UNCHANGED <<mnist, train_ds, test_ds, frame, train_images, train_labels,
                 test_images, test_labels, stdout, fs0, rerun, last>>

\* Lines 35-38, tofile raises (disk full, permission denied): nothing
\* catches the exception and the interpreter exits.
TofileRaises ==
  /\ pc \in WriteLines
  /\ \E left \in FailedToFile(fs[FileAt(pc)], ArrayAt(pc)) :
       fs' = [fs EXCEPT ![FileAt(pc)] = left]
  /\ pc' = "failed"
  /\ Logged("write", FileAt(pc), FALSE)
  /\ UNCHANGED <<mnist, train_ds, test_ds, frame, train_images, train_labels,
                 test_images, test_labels, stdout, fs0, rerun, last>>

PrintShape(text, arr, next) ==
  /\ stdout' = Append(stdout, <<text, arr.shape>>)
  /\ pc' = next
  /\ Logged("print", text, TRUE)
  /\ UNCHANGED <<mnist, fs, train_ds, test_ds, frame, train_images,
                 train_labels, test_images, test_labels, fs0, rerun, last>>

Line40 ==
  pc = "L40" /\ PrintShape("shape of trained image", train_images, "L41")

\* Faulty Line41: the shape of the image array is printed again.
Line41_WrongArray ==
  pc = "L41" /\ PrintShape("shape of trained label", train_images, "L42")

Line41 ==
  pc = "L41" /\ PrintShape("shape of trained label", train_labels, "L42")

Line42 == pc = "L42" /\ PrintShape("shape of test image", test_images, "L43")

Line43 == pc = "L43" /\ PrintShape("shape of test image", test_labels, "done")

\* The operator runs the script again after a complete run, on the same
\* dataset, in the directory as the first run left it or with the files
\* replaced meanwhile.
Rerun ==
  /\ pc = "done"
  /\ ~rerun
  /\ rerun' = TRUE
  /\ last' = [valid |-> TRUE, fs |-> fs, stdout |-> stdout]
  /\ fs' \in {fs, StaleFiles}
  /\ fs0' = fs'
  /\ pc' = "L24"
  /\ train_ds' = <<>> /\ test_ds' = <<>>
  /\ frame' = NoFrame
  /\ train_images' = Unbound /\ train_labels' = Unbound
  /\ test_images' = Unbound /\ test_labels' = Unbound
  /\ stdout' = <<>>
  /\ log' = <<>>
  /\ UNCHANGED mnist

\* One step of the script.
Step ==
  \/ Line24_Load
  \/ Line24_LoadRaises
  \/ Line26_Call
  \/ DsTonp_Iter
  \/ Line26_Return
  \/ Line27_Call
  \/ Line27_Return
  \/ Line29
  \/ Line30
  \/ Line32
  \/ Line33
  \/ Line35
  \/ Line36
  \/ Line37
  \/ Line38
  \/ TofileRaises
  \/ Line40
  \/ Line41
  \/ Line42
  \/ Line43

Next == Step \/ Rerun

Spec == Init /\ [][Next]_vars

SpecRange == InitRange /\ [][Next]_vars

\* The interpreter keeps running the script until it ends or an exception
\* ends it.
FairSpec == Spec /\ WF_vars(Step)

\* ------------------------------------------------------------ vocabulary
Terminated == pc \in {"done", "failed"}

\* arr[i] of numpy, i from 1: the i-th item along the first axis.
Item(arr, i) ==
  LET sz == Product(Tail(arr.shape))
  IN [dtype |-> arr.dtype, shape |-> Tail(arr.shape),
      data |-> SubSeq(arr.data, (i - 1) * sz + 1, i * sz)]

\* The k-th 4-byte group of a file as a little-endian number.
Word4(bytes, k) ==
  bytes[4 * k - 3] + 256 * bytes[4 * k - 2] + 65536 * bytes[4 * k - 1]
    + 16777216 * bytes[4 * k]

\* The raw pixels, and the raw labels, of a split in pair order.
RawPixels(split) == ConcatData([i \in 1..Len(split) |-> split[i].image])
RawLabels(split) == ConcatData([i \in 1..Len(split) |-> split[i].label])

Happened(op, arg, ok) == \E i \in 1..Len(log) : log[i] = Event(op, arg, ok)

Count(op, arg) ==
  Cardinality({i \in 1..Len(log) : log[i].op = op /\ log[i].arg = arg})

\* The four (file, array) pairs in the order of lines 35-38.
Outputs ==
  << <<"train_images.mat", train_images>>, <<"train_labels.mat", train_labels>>,
     <<"test_images.mat", test_images>>, <<"test_labels.mat", test_labels>> >>

\* ---------------------------------------------------------------- claims
\* The arrays dsTonp returned for a split, before lines 29-33 replace them.
TrainConverted == pc \in {"L27", "L29"} \/ (pc = "L17" /\ frame.ret = "L27")
TestConverted == pc \in {"L29", "L30"}

SameAsPairs(images, labels, ds) ==
  /\ images.shape[1] = Len(ds)
  /\ labels.shape[1] = Len(ds)
  /\ \A i \in 1..Len(ds) :
       /\ Item(images, i) = ds[i].image
       /\ Item(labels, i) = ds[i].label

\* C1: dsTonp returns two arrays as long as the sequence it was given, whose
\* i-th image and i-th label are those of the i-th pair: nothing reordered,
\* dropped or deduplicated; while the loop runs, the pairs taken so far are
\* exactly the first pos pairs, each appended once.
C1_OrderPreserved ==
  /\ pc = "L17" =>
       /\ frame.pos \in 0..Len(frame.ds)
       /\ Len(frame.images) = frame.pos
       /\ Len(frame.labels) = frame.pos
       /\ \A i \in 1..frame.pos :
            /\ frame.images[i] = frame.ds[i].image
            /\ frame.labels[i] = frame.ds[i].label
  /\ TrainConverted => SameAsPairs(train_images, train_labels, train_ds)
  /\ TestConverted => SameAsPairs(test_images, test_labels, test_ds)

C1_Witness ==
  /\ pc = "L27"
  /\ Len(train_ds) >= 2
  /\ train_ds[1].image # train_ds[2].image
  /\ train_ds[1].label # train_ds[2].label

\* C2: after a complete run each output file holds exactly the elements of
\* its normalized array as 4-byte values in row-major order: its length is
\* 4 times the element count and its k-th 4-byte group is the k-th element
\* of the array's buffer, whatever the file held before the run.
C2_FilesAreArrays ==
  pc = "done" =>
    \A n \in 1..Len(Outputs) :
      LET file == fs[Outputs[n][1]]
          arr == Outputs[n][2]
      IN /\ file.exists
         /\ Len(arr.data) = Product(arr.shape)
         /\ Len(file.bytes) = 4 * Product(arr.shape)
         /\ \A k \in 1..Product(arr.shape) : Word4(file.bytes, k) = arr.data[k]

C2_Witness ==
  /\ pc = "done"
  /\ fs0 = StaleFiles
  /\ Len(mnist.train) = 1
  /\ Len(fs["train_labels.mat"].bytes) < Len(Stale.bytes)
  /\ Len(fs["train_images.mat"].bytes) > Len(Stale.bytes)

\* The float32 1.0.
One == AsFloat32(1)

\* x is the float32 nearest to p / Scale: with m the significand of x and
\* x = m * 2^-k, twice |Scale * m - p * 2^k| is at most Scale.  The products
\* are formed in two 12-bit limbs of m.
NearestQuotient(x, p) ==
  IF p = 0 THEN x = 0
  ELSE /\ x > 0
       /\ LET k == FracBits + Bias - ExpField(x)
              m == Significand(x)
              mh == m \div 4096
              ml == m % 4096
          IN /\ k \in FracBits..(FracBits + 8)
             /\ LET a == Scale * mh - p * Pow2(k - 12)
                    d == a * 4096 + Scale * ml
                IN /\ a \in -256..256
                   /\ 2 * d <= Scale
                   /\ -2 * d <= Scale

UnitPixels(arr, split) ==
  arr.dtype = "float32" =>
    /\ Len(arr.data) = Len(RawPixels(split))
    /\ \A k \in 1..Len(arr.data) :
         LET x == arr.data[k]
             p == RawPixels(split)[k]
         IN /\ x \in 0..One
            /\ NearestQuotient(x, p)
            /\ p = 0 => x = 0
            /\ p = 255 => x = One

WordsIn(name, lo, hi) ==
  Happened("write", name, TRUE) =>
    \A k \in 1..(Len(fs[name].bytes) \div 4) :
      Word4(fs[name].bytes, k) \in lo..hi

\* C3: every element of a normalized image array is its raw pixel (0..255)
\* divided by 255 in float32 and lies in [0.0, 1.0], 0 giving 0.0 and 255
\* giving 1.0; so does every value written to the two image files.
C3_UnitRange ==
  /\ UnitPixels(train_images, mnist.train)
  /\ UnitPixels(test_images, mnist.test)
  /\ WordsIn("train_images.mat", 0, One)
  /\ WordsIn("test_images.mat", 0, One)

C3_Witness ==
  /\ pc = "done"
  /\ RawPixels(mnist.train)[1] = 128
  /\ train_images.data[1] \in 1..(One - 1)
  /\ Word4(fs["train_images.mat"].bytes, 1) = train_images.data[1]

\* x is the float32 whose value is the integer l.
IsInteger(x, l) ==
  IF l = 0 THEN x = 0
  ELSE /\ x > 0
       /\ ExpField(x) \in Bias..(Bias + FracBits)
       /\ Significand(x) = l * Pow2(FracBits - (ExpField(x) - Bias))

DigitLabels(arr, split) ==
  arr.dtype = "float32" =>
    /\ Len(arr.data) = Len(split)
    /\ \A i \in 1..Len(arr.data) :
         /\ RawLabels(split)[i] \in 0..9
         /\ IsInteger(arr.data[i], RawLabels(split)[i])

DigitWords(name) ==
  Happened("write", name, TRUE) =>
    \A k \in 1..(Len(fs[name].bytes) \div 4) :
      \E d \in 0..9 : IsInteger(Word4(fs[name].bytes, k), d)

\* C4: a normalized label has the numeric value of the raw label (a digit
\* class 0..9), never rescaled; so every value of the normalized label
\* arrays and of the two label files is one of 0.0, 1.0, ..., 9.0.
C4_LabelsKept ==
  /\ DigitLabels(train_labels, mnist.train)
  /\ DigitLabels(test_labels, mnist.test)
  /\ DigitWords("train_labels.mat")
  /\ DigitWords("test_labels.mat")

C4_Witness ==
  /\ pc = "done"
  /\ RawLabels(mnist.train)[1] = 9
  /\ train_labels.dtype = "float32"
  /\ Word4(fs["train_labels.mat"].bytes, 1) = train_labels.data[1]
  /\ IsInteger(train_labels.data[1], 9)

\* C5: a second complete run on the same dataset, whatever the directory
\* held when either run started, leaves the four files byte-identical to the
\* first run's and prints the same four shapes.
C5_RerunIdentical ==
  (pc = "done" /\ last.valid) =>
    /\ \A f \in FileNames : fs[f] = last.fs[f]
    /\ stdout = last.stdout

C5_Witness ==
  /\ pc = "done"
  /\ last.valid
  /\ fs0 = StaleFiles
  /\ last.fs # StaleFiles
  /\ Len(mnist.train) >= 1
  /\ Len(mnist.test) >= 1

LoadFailed == Happened("load", "mnist", FALSE)

\* C6: when the load fails the run ends there: the load is not tried again,
\* nothing is converted, no output file is created or modified, no shape
\* line is printed and no further step is taken.
C6_LoadFailureIsFatal ==
  LoadFailed =>
    /\ pc = "failed"
    /\ log = <<Event("load", "mnist", FALSE)>>
    /\ fs = fs0
    /\ stdout = <<>>
    /\ frame = NoFrame
    /\ train_images = Unbound /\ train_labels = Unbound
    /\ test_images = Unbound /\ test_labels = Unbound
    /\ ~ENABLED Step

C6_Witness ==
  /\ LoadFailed
  /\ pc = "failed"
  /\ fs = StaleFiles
  /\ Len(mnist.train) >= 1

\* The position in lines 35-38 of the write that failed, 0 when none did.
FailedWrite ==
  IF \E n \in 1..Len(Outputs) : Happened("write", Outputs[n][1], FALSE)
  THEN CHOOSE n \in 1..Len(Outputs) : Happened("write", Outputs[n][1], FALSE)
  ELSE 0

\* C7: when the write of the k-th file fails the run ends there: the failed
\* write is the last step and is not tried again, the files after it in the
\* order of lines 35-38 are as they were when the run started, the files
\* before it stay as written, and no shape line is printed.
C7_WriteFailureIsFatal ==
  FailedWrite # 0 =>
    /\ pc = "failed"
    /\ log[Len(log)] = Event("write", Outputs[FailedWrite][1], FALSE)
    /\ \A n \in 1..Len(Outputs) :
         /\ n < FailedWrite =>
              /\ Count("write", Outputs[n][1]) = 1
              /\ fs[Outputs[n][1]] =
                   [exists |-> TRUE, bytes |-> BytesOf(Outputs[n][2].data)]
         /\ n = FailedWrite => Count("write", Outputs[n][1]) = 1
         /\ n > FailedWrite =>
              /\ Count("write", Outputs[n][1]) = 0
              /\ fs[Outputs[n][1]] = fs0[Outputs[n][1]]
    /\ stdout = <<>>
    /\ ~ENABLED Step

C7_Witness ==
  /\ FailedWrite = 3
  /\ pc = "failed"
  /\ fs0 = StaleFiles
  /\ Len(mnist.train) >= 1
  /\ fs["train_images.mat"] # Stale
  /\ fs["test_labels.mat"] = Stale

\* The shapes printed, in order.
ShapesPrinted == [k \in 1..Len(stdout) |-> stdout[k][2]]

\* C8 as claimed: a complete run on N train pairs and M test pairs prints
\* exactly the four shapes (N,rows,cols,1), (N,), (M,rows,cols,1), (M,) in
\* this order, for every N and M.
C8_Original ==
  pc = "done" =>
    ShapesPrinted =
      << <<Len(mnist.train), ImgRows, ImgCols, 1>>, <<Len(mnist.train)>>,
         <<Len(mnist.test), ImgRows, ImgCols, 1>>, <<Len(mnist.test)>> >>

\* The shape of the image array of a split of n pairs.
ImagesShape(n) == IF n = 0 THEN <<0>> ELSE <<n, ImgRows, ImgCols, 1>>

\* C8 amended: a complete run prints exactly four shapes, in this order
\* (N,rows,cols,1), (N,), (M,rows,cols,1), (M,) when N >= 1 and M >= 1; the
\* image array of a split with no pairs is reported as (0,).  No run prints
\* more than four lines, and only a complete run has printed four.
C8_ShapesPrinted ==
  /\ Len(stdout) <= 4
  /\ Len(stdout) = 4 <=> pc = "done"
  /\ pc = "done" =>
       ShapesPrinted =
         << ImagesShape(Len(mnist.train)), <<Len(mnist.train)>>,
            ImagesShape(Len(mnist.test)), <<Len(mnist.test)>> >>

C8_Witness ==
  /\ pc = "done"
  /\ Len(mnist.train) = MaxTrain
  /\ Len(mnist.test) = MaxTest
  /\ MaxTrain # MaxTest
  /\ ShapesPrinted[1] = <<MaxTrain, ImgRows, ImgCols, 1>>

\* The arrays and the files a split alone determines.
RawImagesOf(split) == NpArray([i \in 1..Len(split) |-> split[i].image])
RawLabelsOf(split) == NpArray([i \in 1..Len(split) |-> split[i].label])
FileOf(arr) == [exists |-> TRUE, bytes |-> BytesOf(arr.data)]

ArraysOwnSplit ==
  /\ train_images \in {Unbound, RawImagesOf(mnist.train),
                       NormalizeImages(RawImagesOf(mnist.train))}
  /\ train_labels \in {Unbound, RawLabelsOf(mnist.train),
                       NormalizeLabels(RawLabelsOf(mnist.train))}
  /\ test_images \in {Unbound, RawImagesOf(mnist.test),
                      NormalizeImages(RawImagesOf(mnist.test))}
  /\ test_labels \in {Unbound, RawLabelsOf(mnist.test),
                      NormalizeLabels(RawLabelsOf(mnist.test))}

TrainFilesOwnSplit ==
  /\ fs["train_images.mat"] =
       FileOf(NormalizeImages(RawImagesOf(mnist.train)))
  /\ fs["train_labels.mat"] =
       FileOf(NormalizeLabels(RawLabelsOf(mnist.train)))

TestFilesOwnSplit ==
  /\ fs["test_images.mat"] = FileOf(NormalizeImages(RawImagesOf(mnist.test)))
  /\ fs["test_labels.mat"] = FileOf(NormalizeLabels(RawLabelsOf(mnist.test)))

\* No step that produces or writes the arrays of the split has failed.
TrainStepsOk ==
  /\ ~LoadFailed
  /\ ~Happened("write", "train_images.mat", FALSE)
  /\ ~Happened("write", "train_labels.mat", FALSE)

TestStepsOk ==
  /\ ~LoadFailed
  /\ ~Happened("write", "test_images.mat", FALSE)
  /\ ~Happened("write", "test_labels.mat", FALSE)

\* C9 as claimed: the arrays and files of a split depend on that split and
\* on the outcome of its own steps only: whatever happened to the other
\* split, a run that has ended with the split's own steps succeeding has
\* left the split's files holding the split's normalized arrays.
C9_Original ==
  /\ ArraysOwnSplit
  /\ (Terminated /\ TrainStepsOk) => TrainFilesOwnSplit
  /\ (Terminated /\ TestStepsOk) => TestFilesOwnSplit

\* C9 amended: at every point the arrays of a split are determined by that
\* split alone, and after a run that completes without failure the files of
\* a split are determined by that split alone.
C9_NoCrossSplit ==
  /\ ArraysOwnSplit
  /\ pc = "done" => (TrainFilesOwnSplit /\ TestFilesOwnSplit)

C9_Witness ==
  /\ pc = "done"
  /\ Len(mnist.train) >= 1
  /\ Len(mnist.test) >= 1
  /\ mnist.train[1] # mnist.test[1]
  /\ fs["train_images.mat"] # fs["test_images.mat"]
  /\ fs["train_labels.mat"] # fs["test_labels.mat"]

\* The stage of a step: load, convert, normalize, write, print.
Stage(op) ==
  CASE op = "load" -> 1
    [] op = "convert" -> 2
    [] op = "normalize" -> 3
    [] op = "write" -> 4
    [] op = "print" -> 5

Before(i, op, arg) == \E j \in 1..(i - 1) : log[j] = Event(op, arg, TRUE)

\* The steps of a run are in the order load, convert, normalize, write,
\* print: a write comes after both conversions and all four normalizations,
\* a print after all four writes.
StagesInOrder ==
  /\ \A i \in 1..Len(log) : \A j \in 1..i : Stage(log[j].op) <= Stage(log[i].op)
  /\ \A i \in 1..Len(log) :
       /\ log[i].op # "load" => Before(i, "load", "mnist")
       /\ log[i].op = "write" =>
            /\ Before(i, "convert", "train")
            /\ Before(i, "convert", "test")
            /\ \A n \in 1..Len(Outputs) :
                 \E j \in 1..(i - 1) :
                   /\ log[j].op = "normalize"
                   /\ Outputs[n][1] = log[j].arg \o ".mat"
       /\ log[i].op = "print" =>
            \A n \in 1..Len(Outputs) : Before(i, "write", Outputs[n][1])

\* A file whose write succeeded still holds what was written.
WrittenFilesKept ==
  \A n \in 1..Len(Outputs) :
    Happened("write", Outputs[n][1], TRUE) =>
      fs[Outputs[n][1]] = FileOf(Outputs[n][2])

\* A run goes on until it ends, and a run no step of which failed ends
\* right after the fourth shape line.
EndsAfterFourthLine ==
  /\ ~Terminated => ENABLED Step
  /\ Terminated => ~ENABLED Step
  /\ pc = "done" <=>
       (Len(stdout) = 4 /\ Len(log) > 0 /\ log[Len(log)].op = "print")
  /\ pc = "failed" <=> (Len(log) > 0 /\ ~log[Len(log)].ok)
  /\ \A i \in 1..(Len(log) - 1) : log[i].ok

\* C10 as claimed: the order of the stages, each of the four files written
\* exactly once in every run and not modified afterwards, and every run
\* without failure ending after the fourth shape line.
C10_Original ==
  /\ StagesInOrder
  /\ Terminated => \A f \in FileNames : Count("write", f) = 1
  /\ WrittenFilesKept
  /\ EndsAfterFourthLine

C10_Safety ==
  /\ StagesInOrder
  /\ \A f \in FileNames : Count("write", f) <= 1
  /\ pc = "done" => \A f \in FileNames : Count("write", f) = 1
  /\ WrittenFilesKept
  /\ EndsAfterFourthLine

\* C10 amended: in every run the steps are in the order load, convert,
\* normalize, write, print; no file is written before both splits are
\* converted and all four arrays normalized, no shape line printed before
\* all four files are written; each file is written at most once in a run,
\* exactly once in a run that completes, and not modified afterwards; every
\* run ends, and one without failure ends right after the fourth shape line.
C10_LinearRun == []C10_Safety /\ ((pc = "L24") ~> Terminated)

C10_Witness ==
  /\ pc = "done"
  /\ rerun
  /\ Len(log) = 15
  /\ Len(mnist.train) = MaxTrain
  /\ \A f \in FileNames : Count("write", f) = 1 /\ fs[f] # fs0[f]

====
